---- MODULE Spec2Model ----
(***************************************************************************)
(* HandNotes (handnotes.py): a freehand note canvas with a timer-driven    *)
(* stroke pipeline, a timestamp-named note directory pruned to MAX_NOTES   *)
(* files and a bounded in-memory history (ListManipulator).                *)
(*                                                                         *)
(* Python objects are modelled by reference: heap maps an object id to the *)
(* image value it holds, so that `x = y` shares and `y.copy()` allocates.  *)
(***************************************************************************)
EXTENDS Integers, Sequences, FiniteSets, TLC

VARIABLES
    heap,      \* object id -> PIL image value held by that object
    canvas,    \* the Canvas widget's attributes
    notes,     \* NoteApp.notes, a ListManipulator
    disk,      \* CONFIG_DIR: file name -> [mtime, data]
    now,       \* wall clock in whole seconds (datetime.now(), strftime %S)
    mclock,    \* file-system modification clock, strictly increasing
    running,   \* the Qt event loop is alive
    down,      \* mouse buttons currently held (environment)
    ret,       \* value returned by the last previous()/next() call
    added,     \* history: every item handed to ListManipulator.add, in order
    saves,     \* history: calls of save_note so far
    budget,    \* events the run may still handle
    gesture,   \* history: the pointer gesture in progress or just finished
    strokes,   \* history: segments produced since the buffer was last replaced
    lastEv     \* history: the last handled event and its outcome

vars == <<heap, canvas, notes, disk, now, mclock, running, down,
          ret, added, saves, budget, gesture, strokes, lastEv>>

----------------------------------------------------------------------------
(* Program constants and configuration defaults.                           *)

MAX_NOTES == 50

ratio == 3
width == 600
height == 400
line_width == 3

(* Bounds of the model.                                                    *)
MaxCap == 3        \* largest maxsize tried for a stand-alone ListManipulator
MaxAdds == 4       \* add calls on a stand-alone ListManipulator
MaxDrawEvents == 4 \* events handled in one run of the drawing pipeline
MaxStoreEvents == 2 \* events handled in one run of the note store
MaxClock == 1      \* seconds the wall clock advances in one run
MaxLaunchEvents == 3 \* events handled in one run after a launch

None == 0          \* Python None where an object id or item is expected
NoPoint == <<>>    \* last_x = last_y = None

----------------------------------------------------------------------------
(* ListManipulator                                                         *)

ListManipulator(maxsize) ==
    [list |-> <<>>, index |-> -1, maxsize |-> maxsize]

\* add with pop() for pop(0): the newest item is dropped, not the oldest.
LMAdd_PopNewest(lm, item) ==
    LET appended == Append(lm.list, item)
        kept == IF Len(appended) > lm.maxsize
                THEN SubSeq(appended, 1, Len(appended) - 1) ELSE appended
    IN  [lm EXCEPT !.list = kept, !.index = Len(kept) - 1]

LMAdd(lm, item) ==
    LET appended == Append(lm.list, item)
        kept == IF Len(appended) > lm.maxsize THEN Tail(appended) ELSE appended
    IN  [lm EXCEPT !.list = kept, !.index = Len(kept) - 1]

\* previous with >= for >: from cursor 0 it steps to -1, Python's last item.
LMPrevious_Wraps(lm) ==
    IF lm.index >= 0
    THEN [lm |-> [lm EXCEPT !.index = lm.index - 1],
          ret |-> IF lm.index > 0 THEN lm.list[lm.index] ELSE lm.list[Len(lm.list)]]
    ELSE [lm |-> lm, ret |-> None]

\* Python indexes from 0, sequences from 1: _list[i] is list[i + 1].
LMPrevious(lm) ==
    IF lm.index > 0
    THEN [lm |-> [lm EXCEPT !.index = lm.index - 1], ret |-> lm.list[lm.index]]
    ELSE [lm |-> lm, ret |-> None]

LMNext(lm) ==
    IF lm.index < Len(lm.list) - 1
    THEN [lm |-> [lm EXCEPT !.index = lm.index + 1], ret |-> lm.list[lm.index + 2]]
    ELSE [lm |-> lm, ret |-> None]

----------------------------------------------------------------------------
(* Images.  An image value is its pixel size, the content it started from  *)
(* (0: filled with bg_color, k > 0: the picture stored in pre-existing     *)
(* file k), the drawing operations applied since, and the sizes it was     *)
(* resampled from.                                                         *)

BufferSize == <<width * ratio, height * ratio>>
DisplaySize == <<width, height>>

NewImage(size) == [size |-> size, base |-> 0, ops |-> <<>>, resampled |-> <<>>]

Picture(k, size) == [size |-> size, base |-> k, ops |-> <<>>, resampled |-> <<>>]

\* Image.resize: a new image of the requested size, resampled from img.
Resize(img, size) ==
    IF img.size = size THEN img
    ELSE [img EXCEPT !.size = size, !.resampled = Append(@, img.size)]

\* ImageDraw.line([x1*r, y1*r, x2*r, y2*r], width=line_width)
LineOp(seg) ==
    [op |-> "line",
     xy |-> <<seg[1] * ratio, seg[2] * ratio, seg[3] * ratio, seg[4] * ratio>>]

\* ImageDraw.ellipse([(x - r, y - r), (x + r, y + r)], fill=bg_color)
EllipseOp(x, y) ==
    LET r == line_width * 10
    IN  [op |-> "ellipse", xy |-> <<x - r, y - r, x + r, y + r>>]

(* Objects.                                                                *)

Smallest(S) == CHOOSE i \in S : \A j \in S : i <= j

NewObj(h) == Smallest((1..(Cardinality(DOMAIN h) + 1)) \ DOMAIN h)

Range(s) == {s[i] : i \in 1..Len(s)}

\* Objects no reference reaches are reclaimed.
Collect(h, cv, lm) ==
    LET live == (DOMAIN h) \cap ({cv.image, cv.draw} \cup Range(lm.list))
    IN  [o \in live |-> h[o]] @@ <<>>

----------------------------------------------------------------------------
(* Canvas                                                                  *)

\* _rebuild_base_pixmap without _pending_lines.clear().
RebuildBasePixmap_KeepsPending(h, cv) ==
    LET img == Resize(h[cv.image], DisplaySize)
    IN  [cv EXCEPT !.base_pixmap = img,
                   !.pixmap = [base |-> img, overlay |-> <<>>]]

RebuildBasePixmap(h, cv) ==
    LET img == Resize(h[cv.image], DisplaySize)
    IN  [cv EXCEPT !.base_pixmap = img,
                   !.pending_lines = <<>>,
                   !.pixmap = [base |-> img, overlay |-> <<>>]]

\* _draw_overlay painting every pending line but the one just appended.
DrawOverlay_Late(cv) ==
    [cv EXCEPT !.pixmap =
        [base |-> cv.base_pixmap,
         overlay |-> SubSeq(cv.pending_lines, 1, Len(cv.pending_lines) - 1)]]

DrawOverlay(cv) ==
    [cv EXCEPT !.pixmap = [base |-> cv.base_pixmap, overlay |-> cv.pending_lines]]

\* Returns the heap and the canvas after rendering the pending lines.
FlushToImage(h, cv) ==
    IF cv.pending_lines = <<>>
    THEN [heap |-> h, canvas |-> cv]
    ELSE LET lines == [i \in 1..Len(cv.pending_lines) |-> LineOp(cv.pending_lines[i])]
             h1 == [h EXCEPT ![cv.draw].ops = @ \o lines]
         IN  [heap |-> h1, canvas |-> RebuildBasePixmap(h1, cv)]

InBounds(p) == 0 <= p[1] /\ p[1] < width /\ 0 <= p[2] /\ p[2] < height

EraseAt(h, cv, x, y) == [h EXCEPT ![cv.draw].ops = Append(@, EllipseOp(x, y))]

\* p is where the cursor is, in widget coordinates.
\* _sample_mouse_position without the bounds test of line 112.
SampleMousePosition_NoBounds(h, cv, p) ==
    IF cv.last = NoPoint
    THEN [heap |-> h, canvas |-> [cv EXCEPT !.last = p]]
    ELSE IF cv.erasing
         THEN LET h1 == EraseAt(h, cv, p[1] * ratio, p[2] * ratio)
              IN  [heap |-> h1,
                   canvas |-> [RebuildBasePixmap(h1, cv) EXCEPT !.last = p]]
         ELSE LET cv1 == [cv EXCEPT !.pending_lines =
                              Append(@, <<cv.last[1], cv.last[2], p[1], p[2]>>)]
              IN  [heap |-> h, canvas |-> [DrawOverlay(cv1) EXCEPT !.last = p]]

SampleMousePosition(h, cv, p) ==
    IF ~InBounds(p)
    THEN [heap |-> h, canvas |-> cv]
    ELSE IF cv.last = NoPoint
         THEN [heap |-> h, canvas |-> [cv EXCEPT !.last = p]]
         ELSE IF cv.erasing
              THEN LET h1 == EraseAt(h, cv, p[1] * ratio, p[2] * ratio)
                   IN  [heap |-> h1,
                        canvas |-> [RebuildBasePixmap(h1, cv) EXCEPT !.last = p]]
              ELSE LET cv1 == [cv EXCEPT !.pending_lines =
                                   Append(@, <<cv.last[1], cv.last[2], p[1], p[2]>>)]
                   IN  [heap |-> h, canvas |-> [DrawOverlay(cv1) EXCEPT !.last = p]]

FlushAndContinue(h, cv, p) ==
    LET f == FlushToImage(h, cv)
    IN  SampleMousePosition(f.heap, f.canvas, p)

SetImage(h, cv, obj) ==
    RebuildBasePixmap(h, [cv EXCEPT !.image = obj, !.draw = obj])

\* Canvas.__init__: a blank buffer in a fresh object.
NewCanvas(obj) ==
    LET img == NewImage(BufferSize)
    IN  [image |-> obj, draw |-> obj, last |-> NoPoint, erasing |-> FALSE,
         pending_lines |-> <<>>, timer_active |-> FALSE,
         base_pixmap |-> Resize(img, DisplaySize),
         pixmap |-> [base |-> Resize(img, DisplaySize), overlay |-> <<>>]]

----------------------------------------------------------------------------
(* The note directory: its entries [name, mtime, data], in directory order *)

NoteName(ts) == [prefix |-> "note_", stamp |-> ts, ext |-> ".png"]

\* glob "note_*.png"
IsNote(name) == name.prefix = "note_" /\ name.ext = ".png"

\* f.endswith(".png")
IsPng(name) == name.ext = ".png"

Glob(dk) == SelectSeq(dk, LAMBDA e : IsNote(e.name))

PngFiles(dk) == SelectSeq(dk, LAMBDA e : IsPng(e.name))

\* What Image.save leaves in the file, and what a write cut short leaves.
Png(img) == [ok |-> TRUE, img |-> img]
Truncated == [ok |-> FALSE, img |-> NewImage(<<0, 0>>)]

\* sorted(files, key=os.path.getmtime)
SortByMtime(files) == SortSeq(files, LAMBDA a, b : a.mtime < b.mtime)

\* max(files, key=os.path.getmtime)
Newest(files) ==
    files[CHOOSE i \in 1..Len(files) :
              \A j \in 1..Len(files) : files[j].mtime <= files[i].mtime]

\* files[:-n]
DropLast(files, n) == SubSeq(files, 1, Len(files) - n)

Names(files) == {files[i].name : i \in 1..Len(files)}

\* open(name, "w"): the entry is replaced if the name exists, else created.
WriteFile(dk, name, mt, data) ==
    LET entry == [name |-> name, mtime |-> mt, data |-> data]
    IN  IF name \in Names(dk)
        THEN [i \in 1..Len(dk) |-> IF dk[i].name = name THEN entry ELSE dk[i]]
        ELSE Append(dk, entry)

RemoveFiles(dk, S) == SelectSeq(dk, LAMBDA e : e.name \notin S)

----------------------------------------------------------------------------
(* NoteApp                                                                 *)

\* The steps of save_note that can raise, and "none".
FailPoints == {"none", "open", "write", "listdir", "getmtime", "remove"}

\* A try block that ends after img.save: listing and pruning are outside it.
Caught_WriteOnly(fail) == fail \in {"none", "open", "write"}

\* try: ... except Exception around the whole body of save_note.
Caught(fail) == fail \in FailPoints

\* out.fail is the step that raises; out.at tells which os.remove raises, or
\* ("gone") that the call raises because the oldest listed file was deleted
\* by another process after os.listdir returned.
SaveNote(h, cv, lm, dk, t, mt, out) ==
    LET obj == NewObj(h)
        h1 == (obj :> h[cv.image]) @@ h
        lm1 == LMAdd(lm, obj)
        name == NoteName(t)
        dk1 == CASE out.fail = "open" -> dk
                 [] out.fail = "write" ->
                        WriteFile(dk, name, mt, Truncated)
                 [] OTHER ->
                        WriteFile(dk, name, mt, Png(h1[obj]))
        files == SortByMtime(PngFiles(dk1))
        old == DropLast(files, MAX_NOTES)
        done == CASE out.fail \in {"open", "write", "listdir", "getmtime"} -> 0
                  [] out.fail = "remove" /\ out.at \in {"first", "gone"} -> 0
                  [] out.fail = "remove" /\ out.at = "last" -> Len(old) - 1
                  [] OTHER -> Len(old)
        gone == IF out.at = "gone" THEN {files[1].name} ELSE {}
    IN  [heap |-> Collect(h1, cv, lm1),
         notes |-> lm1,
         disk |-> RemoveFiles(dk1, {old[i].name : i \in 1..done} \cup gone),
         escaped |-> ~Caught(out.fail),
         possible |-> /\ out.fail = "remove" /\ out.at \in {"first", "gone"} =>
                             Len(old) >= 1
                      /\ out.fail = "remove" /\ out.at = "last" => Len(old) >= 2
                      /\ out.at = "gone" => out.fail \in {"getmtime", "remove"}]

NoFailure == [fail |-> "none", at |-> "-"]

SaveOutcomes ==
    {[fail |-> f, at |-> "-"] : f \in FailPoints \ {"remove"}}
        \cup {[fail |-> "remove", at |-> a] : a \in {"first", "last"}}

\* A listed file vanishes before its modification time is read, or before
\* it is removed.
VanishOutcomes ==
    {[fail |-> f, at |-> "gone"] : f \in {"getmtime", "remove"}}

\* One turn of the loop of _initialize_notes: st.next is the index of the
\* file it opens.
LoadNote(files, cv, st) ==
    LET data == files[st.next].data
    IN  IF data.ok
        THEN LET obj == NewObj(st.heap)
                 h1 == (obj :> data.img) @@ st.heap
                 lm1 == LMAdd(st.notes, obj)
             IN  [heap |-> Collect(h1, cv, lm1), notes |-> lm1, next |-> st.next + 1]
        ELSE [st EXCEPT !.next = st.next + 1]

RECURSIVE LoadNotes(_, _, _)
LoadNotes(files, cv, st) ==
    IF st.next > Len(files) THEN st
    ELSE LoadNotes(files, cv, LoadNote(files, cv, st))

\* _initialize_notes taking the files in the order glob returns them.
InitializeNotes_Unsorted(dk, h, cv, lm) ==
    LoadNotes(Glob(dk), cv, [heap |-> h, notes |-> lm, next |-> 1])

InitializeNotes(dk, h, cv, lm) ==
    LoadNotes(SortByMtime(Glob(dk)), cv, [heap |-> h, notes |-> lm, next |-> 1])

LoadLastNote(dk, h, cv, lm) ==
    IF Glob(dk) = <<>> THEN [heap |-> h, canvas |-> cv]
    ELSE LET data == Newest(Glob(dk)).data
         IN  IF data.ok
             THEN LET obj == NewObj(h)
                      h1 == (obj :> data.img) @@ h
                      cv1 == SetImage(h1, cv, obj)
                  IN  [heap |-> Collect(h1, cv1, lm), canvas |-> cv1]
             ELSE [heap |-> h, canvas |-> cv]

\* NoteApp.__init__ on directory dk.
Startup(dk) ==
    LET cv0 == NewCanvas(1)
        h0 == 1 :> NewImage(BufferSize)
        n == InitializeNotes(dk, h0, cv0, ListManipulator(MAX_NOTES))
        l == LoadLastNote(dk, n.heap, cv0, n.notes)
    IN  [heap |-> l.heap, canvas |-> l.canvas, notes |-> n.notes]

----------------------------------------------------------------------------
(* Directories the program may be started on: n notes stamped 1..n, oldest *)
(* first, note `bad` (if any) unreadable; the configuration file; and      *)
(* possibly one PNG that is not a note, older or newer than every note.    *)
(* The notes are width*ratio x height*ratio pictures, except note `small`  *)
(* (if any), a width x height picture: a note written under ratio = 1.     *)

ConfName == [prefix |-> "handnotes", stamp |-> 0, ext |-> ".conf"]
OtherName == [prefix |-> "sketch", stamp |-> 0, ext |-> ".png"]

\* The entries are listed newest note first: os.listdir promises no order.
Directory(sc) ==
    LET size(i) == IF "small" \in DOMAIN sc /\ sc.small = i
                   THEN DisplaySize ELSE BufferSize
        note(i) == [name |-> NoteName(i), mtime |-> 10 * i,
                    data |-> IF i = sc.bad THEN Truncated
                             ELSE Png(Picture(i, size(i)))]
        conf == [name |-> ConfName, mtime |-> 0, data |-> Truncated]
        other == [name |-> OtherName,
                  mtime |-> IF sc.other = "old" THEN 5 ELSE 10 * sc.n + 5,
                  data |-> Png(Picture(sc.n + 1, BufferSize))]
    IN  <<conf>> \o [i \in 1..sc.n |-> note(sc.n + 1 - i)]
            \o (IF sc.other = "none" THEN <<>> ELSE <<other>>)

Scenarios ==
    {[n |-> 0, other |-> "none", bad |-> 0],
     [n |-> 2, other |-> "none", bad |-> 0],
     [n |-> 2, other |-> "none", bad |-> 2],
     [n |-> 3, other |-> "none", bad |-> 2],
     [n |-> MAX_NOTES - 1, other |-> "none", bad |-> 0],
     [n |-> MAX_NOTES, other |-> "none", bad |-> 0],
     [n |-> MAX_NOTES, other |-> "old", bad |-> 0],
     [n |-> MAX_NOTES + 10, other |-> "none", bad |-> 0],
     [n |-> MAX_NOTES + 10, other |-> "new", bad |-> 0]}

Inside == {<<10, 10>>, <<100, 100>>}
Outside == {<<-1, 10>>, <<width, 10>>, <<10, -1>>, <<10, height>>}
Positions == Inside \cup Outside
Buttons == {"left", "right"}

NoGesture == [plain |-> FALSE, button |-> "none", samples |-> <<>>,
              start |-> 0, saves |-> 0]

\* The event just handled, the step of save_note that raised in it ("none":
\* no step, "-": the handler does not save) and the failed saves so far.
Event(op, fail, failures) == [op |-> op, fail |-> fail, failures |-> failures]

Failed(fail) == fail \notin {"-", "none"}

\* The state after NoteApp.__init__ on one of the directories S.
Started(S, events) ==
    \E sc \in S :
        LET s == Startup(Directory(sc))
        IN  /\ heap = s.heap
            /\ canvas = s.canvas
            /\ notes = s.notes
            /\ disk = Directory(sc)
            /\ now = 100
            /\ mclock = 1000
            /\ running = TRUE
            /\ down = {}
            /\ ret = None
            /\ added = <<>>
            /\ saves = 0
            /\ budget = events
            /\ gesture = NoGesture
            /\ strokes = [segs |-> <<>>, from |-> Len(s.heap[s.canvas.image].ops)]
            /\ lastEv = Event("init", "-", 0)

----------------------------------------------------------------------------
(* Event handlers.  The event loop delivers events one at a time.          *)

Handles(op, fail) ==
    /\ running
    /\ budget > 0
    /\ budget' = budget - 1
    /\ lastEv' = Event(op, fail, lastEv.failures + IF Failed(fail) THEN 1 ELSE 0)

\* The first press of a gesture lands on the widget; while a button is
\* held the widget grabs the mouse and a press may land anywhere.
MousePressEvent(b, p) ==
    /\ Handles("press", "-")
    /\ b \notin down
    /\ down = {} => InBounds(p)
    /\ canvas' = [canvas EXCEPT !.erasing = IF b = "right" THEN TRUE ELSE @,
                                !.last = p,
                                !.timer_active = TRUE]
    /\ down' = down \cup {b}
    /\ gesture' = IF down = {}
                  THEN [plain |-> TRUE, button |-> b, samples |-> <<p>>,
                        start |-> Len(heap[canvas.draw].ops), saves |-> 0]
                  ELSE [gesture EXCEPT !.plain = FALSE]
    /\ UNCHANGED <<heap, notes, disk, now, mclock, running, ret, added, saves, strokes>>

\* The update timer fires with the cursor at p.
TimerTick(p) ==
    /\ Handles("tick", "-")
    /\ canvas.timer_active
    /\ LET r == FlushAndContinue(heap, canvas, p)
       IN  /\ heap' = r.heap
           /\ canvas' = r.canvas
           /\ strokes' = [strokes EXCEPT !.segs = @ \o r.canvas.pending_lines]
    /\ gesture' = IF InBounds(p) THEN [gesture EXCEPT !.samples = Append(@, p)]
                  ELSE gesture
    /\ UNCHANGED <<notes, disk, now, mclock, running, down, ret, added, saves>>

\* save_note as called from a handler, on heap h and canvas cv; click tells
\* a button of the control bar from a pointer release.
Saving(h, cv, out, click) ==
    LET s == SaveNote(h, cv, notes, disk, now, mclock, out)
    IN  /\ s.possible
        /\ heap' = s.heap
        /\ canvas' = cv
        /\ notes' = s.notes
        /\ disk' = s.disk
        /\ running' = ~s.escaped
        /\ mclock' = mclock + 1
        /\ saves' = saves + 1
        /\ gesture' = IF down = {} THEN gesture
                      ELSE [gesture EXCEPT !.saves = @ + 1,
                                           !.plain = IF click THEN FALSE ELSE @]

\* mouseReleaseEvent calling save_note before _flush_to_image.
MouseReleaseEvent_SavesFirst(b, out) ==
    /\ Handles("release", out.fail)
    /\ b \in down
    /\ LET s == SaveNote(heap, canvas, notes, disk, now, mclock, out)
           f == FlushToImage(s.heap, [canvas EXCEPT !.timer_active = FALSE])
       IN  /\ s.possible
           /\ heap' = f.heap
           /\ canvas' = [f.canvas EXCEPT !.last = NoPoint,
                                         !.erasing = IF b = "right" THEN FALSE ELSE @]
           /\ notes' = s.notes
           /\ disk' = s.disk
           /\ running' = ~s.escaped
    /\ mclock' = mclock + 1
    /\ saves' = saves + 1
    /\ gesture' = [gesture EXCEPT !.saves = @ + 1]
    /\ down' = down \ {b}
    /\ UNCHANGED <<now, ret, added, strokes>>

\* mouseReleaseEvent leaving erase mode whichever button is released.
MouseReleaseEvent_AnyButton(b, out) ==
    /\ Handles("release", out.fail)
    /\ b \in down
    /\ LET f == FlushToImage(heap, [canvas EXCEPT !.timer_active = FALSE])
           cv == [f.canvas EXCEPT !.last = NoPoint, !.erasing = FALSE]
       IN  Saving(f.heap, cv, out, FALSE)
    /\ down' = down \ {b}
    /\ UNCHANGED <<now, ret, added, strokes>>

MouseReleaseEvent(b, out) ==
    /\ Handles("release", out.fail)
    /\ b \in down
    /\ LET f == FlushToImage(heap, [canvas EXCEPT !.timer_active = FALSE])
           cv == [f.canvas EXCEPT !.last = NoPoint,
                                  !.erasing = IF b = "right" THEN FALSE ELSE @]
       IN  Saving(f.heap, cv, out, FALSE)
    /\ down' = down \ {b}
    /\ UNCHANGED <<now, ret, added, strokes>>

\* The buttons of the control bar (a click, or Space on the focused button).
SaveClick(out) ==
    /\ Handles("save", out.fail)
    /\ Saving(heap, canvas, out, TRUE)
    /\ UNCHANGED <<now, down, ret, added, strokes>>

ClearNote(out) ==
    /\ Handles("clear", out.fail)
    /\ LET obj == NewObj(heap)
           h1 == (obj :> NewImage(BufferSize)) @@ heap
           cv == RebuildBasePixmap(h1, [canvas EXCEPT !.image = obj, !.draw = obj])
       IN  Saving(h1, cv, out, TRUE)
    /\ strokes' = [segs |-> <<>>, from |-> 0]
    /\ UNCHANGED <<now, down, ret, added>>

\* _previous_note / _next_note handing the history's image itself to
\* set_image, without copy().
ShowNote_NoCopy(r) ==
    /\ notes' = r.lm
    /\ ret' = r.ret
    /\ IF r.ret # None
       THEN LET cv == SetImage(heap, canvas, r.ret)
            IN  /\ heap' = Collect(heap, cv, r.lm)
                /\ canvas' = cv
                /\ strokes' = [segs |-> <<>>, from |-> Len(heap[r.ret].ops)]
       ELSE UNCHANGED <<heap, canvas, strokes>>
    /\ gesture' = IF down = {} THEN gesture ELSE [gesture EXCEPT !.plain = FALSE]
    /\ UNCHANGED <<disk, now, mclock, running, down, added, saves>>

\* _previous_note / _next_note with r the result of notes.previous() / next().
ShowNote(r) ==
    /\ notes' = r.lm
    /\ ret' = r.ret
    /\ IF r.ret # None
       THEN LET obj == NewObj(heap)
                h1 == (obj :> heap[r.ret]) @@ heap
                cv == SetImage(h1, canvas, obj)
            IN  /\ heap' = Collect(h1, cv, r.lm)
                /\ canvas' = cv
                /\ strokes' = [segs |-> <<>>, from |-> Len(h1[obj].ops)]
       ELSE UNCHANGED <<heap, canvas, strokes>>
    /\ gesture' = IF down = {} THEN gesture ELSE [gesture EXCEPT !.plain = FALSE]
    /\ UNCHANGED <<disk, now, mclock, running, down, added, saves>>

\* _previous_note of the variant that also saves what it shows.
PreviousNote_Saves ==
    /\ Handles("previous", "-")
    /\ LET r == LMPrevious(notes)
           obj == NewObj(heap)
           h1 == IF r.ret # None THEN (obj :> heap[r.ret]) @@ heap ELSE heap
           cv == IF r.ret # None THEN SetImage(h1, canvas, obj) ELSE canvas
           s == SaveNote(h1, cv, r.lm, disk, now, mclock, NoFailure)
       IN  /\ heap' = s.heap
           /\ canvas' = cv
           /\ notes' = s.notes
           /\ disk' = s.disk
           /\ ret' = r.ret
           /\ strokes' = IF r.ret # None
                         THEN [segs |-> <<>>, from |-> Len(h1[obj].ops)]
                         ELSE strokes
    /\ mclock' = mclock + 1
    /\ saves' = saves + 1
    /\ gesture' = IF down = {} THEN gesture ELSE [gesture EXCEPT !.plain = FALSE]
    /\ UNCHANGED <<now, running, down, added>>

PreviousNote ==
    /\ Handles("previous", "-")
    /\ ShowNote(LMPrevious(notes))

NextNote ==
    /\ Handles("next", "-")
    /\ ShowNote(LMNext(notes))

\* "Exit" is connected to QMainWindow.close.
Exit ==
    /\ running
    /\ running' = FALSE
    /\ lastEv' = Event("exit", "-", lastEv.failures)
    /\ UNCHANGED <<heap, canvas, notes, disk, now, mclock, down, ret, added,
                   saves, budget, gesture, strokes>>

\* A second of wall-clock time passes.
ClockTick ==
    /\ running
    /\ budget > 0
    /\ now < 100 + MaxClock
    /\ now' = now + 1
    /\ UNCHANGED <<heap, canvas, notes, disk, mclock, running, down, ret, added,
                   saves, budget, gesture, strokes, lastEv>>

----------------------------------------------------------------------------
(* The drawing pipeline: pointer and button events in any order, on a      *)
(* small note directory, with every save succeeding.                       *)

InitDraw ==
    Started({[n |-> 0, other |-> "none", bad |-> 0],
             [n |-> 2, other |-> "none", bad |-> 0]}, MaxDrawEvents)

NextDraw ==
    \/ \E b \in Buttons, p \in Positions : MousePressEvent(b, p)
    \/ \E p \in Positions : TimerTick(p)
    \/ \E b \in Buttons : MouseReleaseEvent(b, NoFailure)
    \/ SaveClick(NoFailure)
    \/ ClearNote(NoFailure)
    \/ PreviousNote
    \/ NextNote
    \/ Exit

SpecDraw == InitDraw /\ [][NextDraw]_vars

(* The note store: button events and the clock, on directories below, at   *)
(* and above the cap, with saves failing at any step.                      *)

InitStore == Started(Scenarios, MaxStoreEvents)

NextStore ==
    \/ \E out \in SaveOutcomes : SaveClick(out)
    \/ \E out \in SaveOutcomes : ClearNote(out)
    \/ PreviousNote
    \/ NextNote
    \/ ClockTick
    \/ Exit

SpecStore == InitStore /\ [][NextStore]_vars

(* Pruning while another process deletes files of the directory.          *)

InitPrune ==
    Started({[n |-> MAX_NOTES, other |-> "none", bad |-> 0],
             [n |-> MAX_NOTES + 10, other |-> "none", bad |-> 0]}, MaxStoreEvents)

NextPrune ==
    \/ \E out \in VanishOutcomes \cup {NoFailure} : SaveClick(out)
    \/ \E out \in VanishOutcomes \cup {NoFailure} : ClearNote(out)
    \/ ClockTick
    \/ Exit

SpecPrune == InitPrune /\ [][NextPrune]_vars

(* The launch: the same events on directories that also hold a note of    *)
(* another size.                                                           *)

LaunchScenarios ==
    {[n |-> 0, other |-> "none", bad |-> 0, small |-> 0],
     [n |-> 2, other |-> "none", bad |-> 0, small |-> 0],
     [n |-> 2, other |-> "none", bad |-> 0, small |-> 1],
     [n |-> 2, other |-> "none", bad |-> 0, small |-> 2]}

InitLaunch == Started(LaunchScenarios, MaxLaunchEvents)

SpecLaunch == InitLaunch /\ [][NextDraw]_vars

----------------------------------------------------------------------------
(* A ListManipulator on its own, for any bound up to MaxCap.               *)

Items == {1, 2}

InitNav ==
    \E cap \in 1..MaxCap :
        LET s == Startup(<<>>)
        IN  /\ heap = s.heap
            /\ canvas = s.canvas
            /\ notes = ListManipulator(cap)
            /\ disk = <<>>
            /\ now = 100
            /\ mclock = 1000
            /\ running = TRUE
            /\ down = {}
            /\ ret = None
            /\ added = <<>>
            /\ saves = 0
            /\ budget = MaxAdds
            /\ gesture = NoGesture
            /\ strokes = [segs |-> <<>>, from |-> 0]
            /\ lastEv = Event("init", "-", 0)

AppUnchanged ==
    UNCHANGED <<heap, canvas, disk, now, mclock, running, down, saves, budget,
                gesture, strokes>>

NavAdd(item) ==
    /\ Len(added) < MaxAdds
    /\ notes' = LMAdd(notes, item)
    /\ added' = Append(added, item)
    /\ lastEv' = Event("add", "-", 0)
    /\ UNCHANGED ret
    /\ AppUnchanged

NavPrevious ==
    /\ notes' = LMPrevious(notes).lm
    /\ ret' = LMPrevious(notes).ret
    /\ lastEv' = Event("previous", "-", 0)
    /\ UNCHANGED added
    /\ AppUnchanged

NavNext ==
    /\ notes' = LMNext(notes).lm
    /\ ret' = LMNext(notes).ret
    /\ lastEv' = Event("next", "-", 0)
    /\ UNCHANGED added
    /\ AppUnchanged

NextNav == (\E item \in Items : NavAdd(item)) \/ NavPrevious \/ NavNext

SpecNav == InitNav /\ [][NextNav]_vars

----------------------------------------------------------------------------
(* Properties of the History Navigator.                                    *)

Min(a, b) == IF a < b THEN a ELSE b

\* C1: after every add the list is the last min(adds, cap) items added, in
\* insertion order, and the cursor is the last index, on the item just added.
C1_AddKeepsMostRecent ==
    LET n == Len(added)
        k == Min(n, notes.maxsize)
    IN  /\ Len(notes.list) = k
        /\ \A i \in 1..k : notes.list[i] = added[n - k + i]
        /\ lastEv.op = "add" =>
               /\ notes.index = Len(notes.list) - 1
               /\ notes.list[notes.index + 1] = added[n]

\* An add that evicted the oldest of a list holding more than one item.
C1_Witness ==
    /\ lastEv.op = "add"
    /\ notes.maxsize >= 2
    /\ Len(added) > notes.maxsize
    /\ added[Len(added) - notes.maxsize] # added[Len(added)]

\* C2: previous() at cursor 0 or on an empty history, and next() at the last
\* index or on an empty history, return none and change nothing; otherwise
\* they move the cursor by exactly one, without wraparound, and return the
\* item under the new cursor; the cursor of a non-empty history is in range.
C2_Step ==
    /\ lastEv'.op = "previous" =>
           IF notes.index > 0
           THEN /\ notes'.index = notes.index - 1
                /\ notes'.list = notes.list
                /\ ret' = notes.list[notes'.index + 1]
           ELSE ret' = None /\ notes' = notes
    /\ lastEv'.op = "next" =>
           IF notes.list # <<>> /\ notes.index < Len(notes.list) - 1
           THEN /\ notes'.index = notes.index + 1
                /\ notes'.list = notes.list
                /\ ret' = notes.list[notes'.index + 1]
           ELSE ret' = None /\ notes' = notes

C2_CursorInRange ==
    notes.list # <<>> => notes.index \in 0..(Len(notes.list) - 1)

C2_Navigation == [][C2_Step]_vars /\ []C2_CursorInRange

\* previous() on a history of several items with the cursor at 0.
C2_Witness ==
    /\ lastEv.op = "previous"
    /\ ret = None
    /\ Len(notes.list) >= 2
    /\ notes.index = 0

----------------------------------------------------------------------------
(* Properties of the drawing pipeline.                                     *)

\* The step just taken handled event op.
Handled(op) == lastEv'.op = op /\ budget' = budget - 1

\* The line segments seg renders to, both endpoints scaled by the ratio.
Scaled(segs) ==
    [i \in 1..Len(segs) |->
        [op |-> "line",
         xy |-> <<segs[i][1] * ratio, segs[i][2] * ratio,
                  segs[i][3] * ratio, segs[i][4] * ratio>>]]

Lines(ops) == SelectSeq(ops, LAMBDA o : o.op = "line")

\* C3: a click on "<" or ">" writes and deletes no file and leaves the
\* history list and its images as they were; it moves only the cursor and,
\* when an image is returned, replaces the Canvas Buffer (and the preview)
\* by that image; when none is returned the canvas is untouched.
C3_Step ==
    Handled("previous") \/ Handled("next") =>
        /\ disk' = disk
        /\ saves' = saves
        /\ mclock' = mclock
        /\ notes'.list = notes.list
        /\ \A i \in 1..Len(notes.list) : heap'[notes.list[i]] = heap[notes.list[i]]
        /\ canvas'.last = canvas.last
        /\ canvas'.erasing = canvas.erasing
        /\ canvas'.timer_active = canvas.timer_active
        /\ running' = running
        /\ IF ret' = None
           THEN canvas' = canvas /\ heap' = heap /\ notes' = notes
           ELSE /\ heap'[canvas'.image] = heap[ret']
                /\ notes'.index # notes.index

C3_NavigationDoesNotSave == [][C3_Step]_vars

\* "<" returned an image while notes were on disk and saves had been made.
C3_Witness ==
    /\ lastEv.op = "previous"
    /\ ret # None
    /\ saves >= 1
    /\ Glob(disk) # <<>>

\* C5: when the release handler of a plain left-button gesture (press, ticks,
\* release) finishes, the buffer has gained exactly the segments joining
\* consecutive in-bounds samples, press point first, each once and scaled by
\* the ratio; the pending list is empty, the timer stopped, the last point
\* cleared.
C5_GestureRendered ==
    lastEv.op = "release" /\ gesture.plain /\ gesture.button = "left" =>
        LET ops == heap[canvas.image].ops
            s == gesture.samples
        IN  /\ SubSeq(ops, gesture.start + 1, Len(ops))
                   = [i \in 1..(Len(s) - 1) |->
                         [op |-> "line",
                          xy |-> <<s[i][1] * ratio, s[i][2] * ratio,
                                   s[i + 1][1] * ratio, s[i + 1][2] * ratio>>]]
            /\ canvas.pending_lines = <<>>
            /\ ~canvas.timer_active
            /\ canvas.last = NoPoint

\* A released draw gesture of three in-bounds samples, not all equal: one
\* segment was flushed by a tick and one by the release.
C5_Witness ==
    /\ lastEv.op = "release"
    /\ gesture.plain
    /\ gesture.button = "left"
    /\ Len(gesture.samples) = 3
    /\ gesture.samples[1] # gesture.samples[2]

\* C6: after every event the displayed pixmap is the downsampled Canvas
\* Buffer overlaid with exactly the pending lines, and every segment produced
\* since the buffer was last replaced is in the buffer or in the pending list.
C6_PreviewCurrent ==
    LET ops == heap[canvas.image].ops
    IN  /\ canvas.pixmap = [base |-> Resize(heap[canvas.image], DisplaySize),
                            overlay |-> canvas.pending_lines]
        /\ Lines(SubSeq(ops, strokes.from + 1, Len(ops)))
               \o Scaled(canvas.pending_lines) = Scaled(strokes.segs)

\* A tick left one segment pending while an earlier one is in the buffer.
C6_Witness ==
    /\ lastEv.op = "tick"
    /\ Len(strokes.segs) = 2
    /\ Len(canvas.pending_lines) = 1

\* C10: a timer tick writes nothing to the note directory and adds nothing to
\* the history; a pointer release performs exactly one save, after its flush:
\* the image saved and added to the history is the buffer with the pending
\* segments rendered; a plain gesture has performed exactly one save.
C10_Step ==
    /\ Handled("tick") => disk' = disk /\ notes' = notes /\ saves' = saves
    /\ Handled("release") =>
           LET img == heap'[canvas'.image]
           IN  /\ saves' = saves + 1
               /\ canvas'.pending_lines = <<>>
               /\ Len(img.ops) = Len(heap[canvas.image].ops) + Len(canvas.pending_lines)
               /\ notes'.list # <<>>
               /\ heap'[notes'.list[Len(notes'.list)]] = img
               /\ \E i \in 1..Len(disk') :
                      /\ disk'[i].name = NoteName(now)
                      /\ disk'[i].mtime = mclock
                      /\ disk'[i].data = Png(img)
               /\ gesture'.plain => gesture'.saves = 1

C10_SaveOnReleaseOnly == [][C10_Step]_vars

\* A plain gesture whose release flushed a pending segment and saved once.
C10_Witness ==
    /\ lastEv.op = "release"
    /\ gesture.plain
    /\ gesture.button = "left"
    /\ Len(gesture.samples) >= 2
    /\ gesture.saves = 1
    /\ saves = 1

----------------------------------------------------------------------------
(* Properties of the note store.                                           *)

Saved == Handled("save") \/ Handled("clear")

\* C4 as claimed: after a successful save the directory holds at most
\* MAX_NOTES notes, the new one among them; they are the most recently
\* modified ones (as many as the cap allows), and every note deleted is older
\* than every note kept.
C4_Step ==
    Saved /\ lastEv'.fail = "none" =>
        LET before == Glob(disk)
            after == Glob(disk')
            total == Names(before) \cup {NoteName(now)}
        IN  /\ Len(after) <= MAX_NOTES
            /\ NoteName(now) \in Names(after)
            /\ Len(after) = Min(MAX_NOTES, Cardinality(total))
            /\ \A i \in 1..Len(before), j \in 1..Len(after) :
                   before[i].name \notin Names(after) => before[i].mtime < after[j].mtime

C4_PrunedToMostRecent == [][C4_Step]_vars

\* C7: a save that fails at any step leaves the session running and the
\* Canvas Buffer as the handler had it before save_note was called (untouched
\* for Save, the blank buffer for Clear); and a save can succeed afterwards.
C7_Step ==
    Saved /\ Failed(lastEv'.fail) =>
        /\ running'
        /\ lastEv'.op = "save" => canvas' = canvas /\ heap'[canvas'.image] = heap[canvas.image]
        /\ lastEv'.op = "clear" => heap'[canvas'.image] = NewImage(BufferSize)

C7_CanRetry ==
    lastEv.failures > 0 /\ lastEv.op # "exit" /\ budget > 0 => ENABLED SaveClick(NoFailure)

C7_FailureCaught == [][C7_Step]_vars /\ []C7_CanRetry

\* A save succeeded after an earlier one had failed.
C7_Witness ==
    /\ lastEv.op = "save"
    /\ lastEv.fail = "none"
    /\ lastEv.failures >= 1
    /\ running
    /\ NoteName(now) \in Names(disk)

\* C8 as claimed: a save whose file write fails leaves the history list and
\* the cursor unchanged.
C8_Step ==
    Saved /\ lastEv'.fail \in {"open", "write"} => notes' = notes

C8_FailedSaveNotInHistory == [][C8_Step]_vars

\* C9 as claimed: a successful save writes a file that did not exist, and no
\* step changes a note that is on disk (pruning may delete it).
C9_Step ==
    /\ Saved /\ lastEv'.fail = "none" => NoteName(now) \notin Names(disk)
    /\ \A i \in 1..Len(disk), j \in 1..Len(disk') :
           IsNote(disk[i].name) /\ disk'[j].name = disk[i].name => disk'[j] = disk[i]

C9_NotesImmutable == [][C9_Step]_vars

----------------------------------------------------------------------------
(* Properties of the launch.                                               *)

\* The note files of the directory that decode.
Loadable(dk) == {e \in Range(Glob(dk)) : e.data.ok}

\* The file an image of the history was read from.
FileOf(img) == CHOOSE e \in Loadable(disk) : e.data.img = img

\* C11: after launch the Canvas Buffer holds the most recently modified note
\* (when it decodes), or is blank when there is no note; the history holds
\* the notes in ascending modification time, the MAX_NOTES most recent when
\* there are more, with the cursor on the newest.
C11_AtLaunch ==
    lastEv.op = "init" =>
        LET n == Len(notes.list)
            img(i) == heap[notes.list[i]]
        IN  /\ Glob(disk) = <<>> => heap[canvas.image] = NewImage(BufferSize)
            /\ Glob(disk) # <<>> /\ Newest(Glob(disk)).data.ok =>
                   heap[canvas.image] = Newest(Glob(disk)).data.img
            /\ n = Min(MAX_NOTES, Cardinality(Loadable(disk)))
            /\ notes.index = n - 1
            /\ \A i \in 1..n : \E e \in Loadable(disk) : e.data.img = img(i)
            /\ \A i \in 1..n, j \in 1..n :
                   i < j => FileOf(img(i)).mtime < FileOf(img(j)).mtime
            /\ \A e \in Loadable(disk) :
                   (\A i \in 1..n : img(i) # e.data.img) =>
                       \A i \in 1..n : e.mtime < FileOf(img(i)).mtime

\* ... so that the first "<" shows the second most recent note.
C11_FirstPrevious ==
    lastEv.op = "init" /\ Handled("previous") =>
        IF Len(notes.list) >= 2
        THEN /\ ret' # None
             /\ heap'[canvas'.image] = heap[notes.list[Len(notes.list) - 1]]
             /\ \E e \in Loadable(disk) :
                    /\ e.data.img = heap'[canvas'.image]
                    /\ Cardinality({f \in Loadable(disk) : f.mtime > e.mtime}) = 1
        ELSE ret' = None /\ canvas' = canvas

C11_Launch == []C11_AtLaunch /\ [][C11_FirstPrevious]_vars

\* Launched on more notes than the cap, then "<" clicked once.
C11_Witness ==
    /\ lastEv.op = "previous"
    /\ budget = MaxStoreEvents - 1
    /\ Len(Glob(disk)) > MAX_NOTES
    /\ Len(notes.list) = MAX_NOTES
    /\ notes.index = MAX_NOTES - 2
    /\ ret # None

\* C12 as claimed: in every reachable state the Canvas Buffer has the working
\* resolution (width*ratio, height*ratio).
C12_BufferSize == heap[canvas.image].size = BufferSize

----------------------------------------------------------------------------
(* More properties of the note store.                                      *)

\* The entry of the note a save at the current second writes.
Written(dk) == CHOOSE e \in Range(dk) : e.name = NoteName(now)

\* C13 as claimed: the image a successful save writes is the Canvas Buffer
\* downsampled to width x height.
C13_Step ==
    Saved /\ lastEv'.fail = "none" =>
        /\ Written(disk').data.img.size = DisplaySize
        /\ Written(disk').data.img = Resize(heap'[canvas'.image], DisplaySize)

C13_SavedAtDeclaredSize == [][C13_Step]_vars

\* C14 as claimed: when a listed file vanishes during the prune of a save,
\* the session goes on and at most MAX_NOTES notes remain after the save.
C14_Step ==
    Saved /\ Failed(lastEv'.fail) =>
        /\ running'
        /\ Len(Glob(disk')) <= MAX_NOTES

C14_PruneToleratesVanishing == [][C14_Step]_vars

----------------------------------------------------------------------------
(* More properties of the drawing pipeline.                                *)

\* C15 as claimed: when the application has exited after something was
\* drawn, no segment is left pending and the Canvas Buffer is on disk as a
\* Note Record.
C15_NothingLostAtExit ==
    lastEv.op = "exit" /\ strokes.segs # <<>> =>
        /\ canvas.pending_lines = <<>>
        /\ \E e \in Range(Glob(disk)) : e.data = Png(heap[canvas.image])

\* C16: a timer tick that finds the cursor outside the canvas only flushes;
\* the sample itself changes neither the buffer, nor its size, nor the
\* pending list, nor the last point, and the gesture and the session go on.
C16_Step ==
    \A p \in Outside :
        TimerTick(p) =>
            LET f == FlushToImage(heap, canvas)
            IN  /\ heap' = f.heap
                /\ canvas' = f.canvas
                /\ heap'[canvas'.image].size = heap[canvas.image].size
                /\ Len(heap'[canvas'.image].ops) =
                       Len(heap[canvas.image].ops) + Len(canvas.pending_lines)
                /\ canvas'.pending_lines = <<>>
                /\ canvas'.last = canvas.last
                /\ canvas'.erasing = canvas.erasing
                /\ canvas'.timer_active
                /\ running'

C16_OutOfBoundsIgnored == [][C16_Step]_vars

\* A draw gesture of a press, a sample inside and a sample outside: the
\* segment of the first two is in the buffer, the last point is the second.
C16_Witness ==
    /\ lastEv.op = "tick"
    /\ gesture.plain /\ gesture.button = "left"
    /\ Len(gesture.samples) = 2
    /\ Len(strokes.segs) = 1
    /\ canvas.pending_lines = <<>>
    /\ canvas.last = gesture.samples[2]
    /\ canvas.timer_active

\* C18: erase mode is on exactly while the right button is held; a sample
\* inside the canvas erases and adds no segment while it is held, and adds
\* one segment and erases nothing while only the left button is held.
C18_ErasingIffRightDown == canvas.erasing <=> "right" \in down

C18_Step ==
    \A p \in Inside :
        TimerTick(p) =>
            LET f == FlushToImage(heap, canvas)
                before == f.heap[canvas.image].ops
                after == heap'[canvas'.image].ops
            IN  /\ "right" \in down =>
                    /\ after = Append(before, EllipseOp(p[1] * ratio, p[2] * ratio))
                    /\ canvas'.pending_lines = <<>>
                /\ down = {"left"} =>
                    /\ after = before
                    /\ canvas'.pending_lines =
                           <<(<<canvas.last[1], canvas.last[2], p[1], p[2]>>)>>

C18_EraseMode == []C18_ErasingIffRightDown /\ [][C18_Step]_vars

\* Both buttons held and a sample just taken: it erased.
C18_Witness ==
    /\ lastEv.op = "tick"
    /\ down = {"left", "right"}
    /\ canvas.erasing
    /\ heap[canvas.image].ops # <<>>
    /\ heap[canvas.image].ops[Len(heap[canvas.image].ops)].op = "ellipse"
    /\ canvas.pending_lines = <<>>

\* C20: the Canvas Buffer is an object of its own, which the drawing context
\* draws on; no step changes an image that stays in the history, and a
\* navigation shows the entry as it is in the history.
C20_BufferPrivate ==
    /\ canvas.image \notin Range(notes.list)
    /\ canvas.draw = canvas.image

C20_Step ==
    /\ \A o \in Range(notes.list) \cap Range(notes'.list) : heap'[o] = heap[o]
    /\ (Handled("previous") \/ Handled("next")) /\ ret' # None =>
           /\ ret' \in Range(notes.list)
           /\ heap'[canvas'.image] = heap[ret']

C20_NoAliasing == []C20_BufferPrivate /\ [][C20_Step]_vars

\* An entry was shown and then drawn over: the entry is as it was.
C20_Witness ==
    /\ ret \in Range(notes.list)
    /\ heap[ret].ops = <<>>
    /\ heap[canvas.image].base = heap[ret].base
    /\ heap[canvas.image].ops # <<>>

----------------------------------------------------------------------------
(* Unreadable notes and files that are not notes.                          *)

NewestLoadable(dk) ==
    CHOOSE e \in Loadable(dk) : \A f \in Loadable(dk) : f.mtime <= e.mtime

\* C17 as claimed: after a launch on a directory with notes that do not
\* decode, the session runs, the history holds the notes that do decode, and
\* the Canvas Buffer is the most recently modified note that decodes (blank
\* only when none does).
C17_SkipsUnreadable ==
    lastEv.op = "init" =>
        /\ running
        /\ Len(notes.list) = Min(MAX_NOTES, Cardinality(Loadable(disk)))
        /\ \A i \in 1..Len(notes.list) :
               \E e \in Loadable(disk) : e.data.img = heap[notes.list[i]]
        /\ heap[canvas.image] = IF Loadable(disk) = {} THEN NewImage(BufferSize)
                                ELSE NewestLoadable(disk).data.img

\* C19 as claimed: a save deletes no file that is not a note, and such a file
\* takes no place under the cap: after a successful save the MAX_NOTES most
\* recent notes (or all of them, when fewer) are still there.
C19_Step ==
    Saved =>
        /\ \A e \in Range(disk) : ~IsNote(e.name) => e \in Range(disk')
        /\ lastEv'.fail = "none" =>
               Len(Glob(disk')) =
                   Min(MAX_NOTES, Cardinality(Names(Glob(disk)) \cup {NoteName(now)}))

C19_PruneOnlyNotes == [][C19_Step]_vars

====
